---- MODULE Spec2Model ----
(***************************************************************************)
(* Limit order book of WataHata/OrderTradeBook.                            *)
(*                                                                         *)
(* The model follows src/src/orderBook.cpp (OrderBook, OrderList,          *)
(* ObjectPool) and the Order record of src/unnamed/part_000.  Pointers to  *)
(* Order objects are indices into the pool's backing vector; nullptr is    *)
(* NULL.  Every public operation is a pure operator from a book record to  *)
(* a book record, and one action applies it to the state variables.        *)
(***************************************************************************)
EXTENDS Integers, Sequences, FiniteSets, TLC

\* ------------------------------------------------------------------ bounds
\* Capacity of the object pool (the code constructs it with 1000000 slots).
CAP == 3
\* Capacity of the pool of the book that is driven to exhaustion (SpecFull).
SmallCap == 2
\* Order ids offered by the caller are 1..MaxId.
MaxId == 3
\* Prices offered by the caller are 1..MaxPrice.
MaxPrice == 2
\* Quantities offered by the caller are 0..MaxQty (nothing rejects 0).
MaxQty == 2
\* The caller makes at most MaxCalls calls on one book (Spec) ...
MaxCalls == 3
\* ... or at most DeepCalls calls with positive quantities (SpecDeep).
DeepCalls == 4

\* ------------------------------------------------------------------ types
GoodTillCancel == "GoodTillCancel"
FillAndKill == "FillAndKill"
OrderType == {GoodTillCancel, FillAndKill}

Buy == "Buy"
Sell == "Sell"
Side == {Buy, Sell}

OrderIds == 1..MaxId
Prices == 1..MaxPrice
Quantities == 0..MaxQty
PositiveQuantities == 1..MaxQty

\* Quantity is std::uint32_t.  Where quantities are added the model keeps
\* the 32-bit value as its two 16-bit halves <<high, low>>, each below Half.
Half == 65536

\* a quantity in the upper part of the range of Quantity: 2^31 - 1
BigQty == (Half \div 2 - 1) * Half + (Half - 1)

\* the quantities offered where sums of quantities are looked at
WideQuantities == {1, BigQty}

\* nullptr; the address of slot i of the pool, &pool_[i], is i
NULL == -1

\* ------------------------------------------------------------------ Order
\* Order::Order(orderType, orderId, side, price, quantity); the intrusive
\* links start detached.
Order(orderType, orderId, side, price, quantity) ==
  [orderType_ |-> orderType, orderId_ |-> orderId, side_ |-> side,
   price_ |-> price, initialQuantity_ |-> quantity,
   remainingQuantity_ |-> quantity, prev_ |-> NULL, next_ |-> NULL]

\* Order() = default, the state of every slot after pool_.resize(size)
DefaultOrder == Order(GoodTillCancel, 0, Buy, 0, 0)

IsFilled(o) == o.remainingQuantity_ = 0

GetFilledQuantity(o) == o.initialQuantity_ - o.remainingQuantity_

\* the larger of two quantities where the smaller is meant
MinTakesLarger(a, b) == IF b < a THEN a ELSE b

\* std::min on two quantities
Min(a, b) == IF b < a THEN b ELSE a

\* ------------------------------------------------------------------ OrderList
\* OrderList() = default
EmptyList == [head_ |-> NULL, tail_ |-> NULL, size_ |-> 0]

front(l) == l.head_

empty(l) == l.head_ = NULL

size(l) == l.size_

\* The list operations change the list header and the links stored in the
\* orders, so they take and return the pair (list, pool).
\* push_back that sets tail_ but does not link the old tail to the new node
push_backUnlinked(l, pool, order) ==
  IF l.head_ = NULL
  THEN [l |-> [head_ |-> order, tail_ |-> order, size_ |-> l.size_ + 1],
        pool |-> [pool EXCEPT ![order].prev_ = NULL, ![order].next_ = NULL]]
  ELSE [l |-> [head_ |-> l.head_, tail_ |-> order, size_ |-> l.size_ + 1],
        pool |-> [pool EXCEPT ![order].prev_ = l.tail_, ![order].next_ = NULL]]

\* push_back that links the new node in front of the head
push_backAtHead(l, pool, order) ==
  IF l.head_ = NULL
  THEN [l |-> [head_ |-> order, tail_ |-> order, size_ |-> l.size_ + 1],
        pool |-> [pool EXCEPT ![order].prev_ = NULL, ![order].next_ = NULL]]
  ELSE [l |-> [head_ |-> order, tail_ |-> l.tail_, size_ |-> l.size_ + 1],
        pool |-> [[pool EXCEPT ![l.head_].prev_ = order]
                    EXCEPT ![order].prev_ = NULL, ![order].next_ = l.head_]]

push_back(l, pool, order) ==
  IF l.head_ = NULL
  THEN [l |-> [head_ |-> order, tail_ |-> order, size_ |-> l.size_ + 1],
        pool |-> [pool EXCEPT ![order].prev_ = NULL, ![order].next_ = NULL]]
  ELSE [l |-> [head_ |-> l.head_, tail_ |-> order, size_ |-> l.size_ + 1],
        pool |-> [[pool EXCEPT ![l.tail_].next_ = order]
                    EXCEPT ![order].prev_ = l.tail_, ![order].next_ = NULL]]

\* remove that does not point the previous node past the removed one
removeKeepsPrevLink(l, pool, order) ==
  LET p == pool[order].prev_
      n == pool[order].next_
      head1 == IF p # NULL THEN l.head_ ELSE n
      pool2 == IF n # NULL THEN [pool EXCEPT ![n].prev_ = p] ELSE pool
      tail1 == IF n # NULL THEN l.tail_ ELSE p
  IN [l |-> [head_ |-> head1, tail_ |-> tail1, size_ |-> l.size_ - 1],
      pool |-> [pool2 EXCEPT ![order].prev_ = NULL, ![order].next_ = NULL]]

\* remove that clears prev_ of the removed node but leaves its next_
removeKeepsNextLink(l, pool, order) ==
  LET p == pool[order].prev_
      n == pool[order].next_
      pool1 == IF p # NULL THEN [pool EXCEPT ![p].next_ = n] ELSE pool
      head1 == IF p # NULL THEN l.head_ ELSE n
      pool2 == IF n # NULL THEN [pool1 EXCEPT ![n].prev_ = p] ELSE pool1
      tail1 == IF n # NULL THEN l.tail_ ELSE p
  IN [l |-> [head_ |-> head1, tail_ |-> tail1, size_ |-> l.size_ - 1],
      pool |-> [pool2 EXCEPT ![order].prev_ = NULL]]

remove(l, pool, order) ==
  LET p == pool[order].prev_
      n == pool[order].next_
      pool1 == IF p # NULL THEN [pool EXCEPT ![p].next_ = n] ELSE pool
      head1 == IF p # NULL THEN l.head_ ELSE n
      pool2 == IF n # NULL THEN [pool1 EXCEPT ![n].prev_ = p] ELSE pool1
      tail1 == IF n # NULL THEN l.tail_ ELSE p
  IN [l |-> [head_ |-> head1, tail_ |-> tail1, size_ |-> l.size_ - 1],
      pool |-> [pool2 EXCEPT ![order].prev_ = NULL, ![order].next_ = NULL]]

pop_front(l, pool) ==
  IF l.head_ # NULL THEN remove(l, pool, l.head_) ELSE [l |-> l, pool |-> pool]

\* Forward iteration begin()..end(): the nodes reached from head_ by next_.
\* fuel bounds the walk so that a malformed (cyclic) list still yields a value.
RECURSIVE Walk(_, _, _)
Walk(pool, ptr, fuel) ==
  IF ptr = NULL \/ fuel = 0 THEN <<>>
  ELSE <<ptr>> \o Walk(pool, pool[ptr].next_, fuel - 1)

Nodes(l, pool) == Walk(pool, l.head_, Cardinality(DOMAIN pool) + 1)

\* ------------------------------------------------------------------ std::map
\* A side is a function from the prices stored to their OrderList.
\* bids_ uses std::greater, so begin() is the highest key; asks_ uses
\* std::less, so begin() is the lowest key.
BidsBegin(m) == CHOOSE p \in DOMAIN m : \A q \in DOMAIN m : p >= q

\* asks_ ordered by std::greater like bids_
AsksBeginGreater(m) == CHOOSE p \in DOMAIN m : \A q \in DOMAIN m : p >= q

AsksBegin(m) == CHOOSE p \in DOMAIN m : \A q \in DOMAIN m : p <= q

\* a map without entries
EmptyMap == [p \in {} |-> NULL]

\* map::erase(key)
Erase(m, k) == [p \in (DOMAIN m) \ {k} |-> m[p]]

\* map::operator[](key): the stored list, default-constructed when absent
At(m, k) == IF k \in DOMAIN m THEN m[k] ELSE EmptyList

\* assignment through the reference returned by operator[] / at()
Put(m, k, l) == [p \in (DOMAIN m) \cup {k} |-> IF p = k THEN l ELSE m[p]]

\* Iteration over a side from begin() to end(), as in
\* for (const auto& [price, orders] : bids_): the keys in the order visited.
RECURSIVE BidsKeys(_)
BidsKeys(m) ==
  IF DOMAIN m = {} THEN <<>>
  ELSE <<BidsBegin(m)>> \o BidsKeys(Erase(m, BidsBegin(m)))

RECURSIVE AsksKeys(_)
AsksKeys(m) ==
  IF DOMAIN m = {} THEN <<>>
  ELSE <<AsksBegin(m)>> \o AsksKeys(Erase(m, AsksBegin(m)))

\* ------------------------------------------------------------------ the book
\* thrown is the exception in flight ("none" when there is none); once an
\* exception is in flight the rest of the operation is skipped.
NoThrow == "none"

\* OrderBook(): empty maps and a pool of capacity slots, all of them free
NewBook(capacity) ==
  [bids_ |-> EmptyMap, asks_ |-> EmptyMap, orders_ |-> EmptyMap, trades_ |-> <<>>,
   pool_ |-> [i \in 0..(capacity - 1) |-> DefaultOrder],
   free_indices_ |-> [i \in 1..capacity |-> i - 1],
   thrown |-> NoThrow]

\* ObjectPool::acquire: returns the book and the slot acquired
acquire(b, orderType, orderId, side, price, quantity) ==
  IF b.free_indices_ = <<>>
  THEN [book |-> [b EXCEPT !.thrown = "runtime_error"], ptr |-> NULL]
  ELSE LET index == b.free_indices_[Len(b.free_indices_)]
       IN [book |-> [b EXCEPT
                       !.free_indices_ = SubSeq(@, 1, Len(@) - 1),
                       !.pool_[index] = Order(orderType, orderId, side, price, quantity)],
           ptr |-> index]

\* release that does not push the index back
releaseLeaks(b, ptr) ==
  IF b.thrown # NoThrow THEN b
  ELSE IF ptr \notin DOMAIN b.pool_ THEN [b EXCEPT !.thrown = "logic_error"]
  ELSE b

\* release that pushes the index twice
releaseTwice(b, ptr) ==
  IF b.thrown # NoThrow THEN b
  ELSE IF ptr \notin DOMAIN b.pool_ THEN [b EXCEPT !.thrown = "logic_error"]
  ELSE [b EXCEPT !.free_indices_ = Append(Append(@, ptr), ptr)]

\* ObjectPool::release
release(b, ptr) ==
  IF b.thrown # NoThrow THEN b
  ELSE IF ptr \notin DOMAIN b.pool_ THEN [b EXCEPT !.thrown = "logic_error"]
  ELSE [b EXCEPT !.free_indices_ = Append(@, ptr)]

\* Fill that takes one unit less than asked when asked for more than one
FillShort(b, ptr, quantity) ==
  IF b.thrown # NoThrow THEN b
  ELSE IF quantity > b.pool_[ptr].remainingQuantity_
  THEN [b EXCEPT !.thrown = "logic_error"]
  ELSE [b EXCEPT !.pool_[ptr].remainingQuantity_ =
                   IF quantity > 1 THEN @ - (quantity - 1) ELSE @ - quantity]

\* Order::Fill on the order in slot ptr
Fill(b, ptr, quantity) ==
  IF b.thrown # NoThrow THEN b
  ELSE IF quantity > b.pool_[ptr].remainingQuantity_
  THEN [b EXCEPT !.thrown = "logic_error"]
  ELSE [b EXCEPT !.pool_[ptr].remainingQuantity_ = @ - quantity]

Size(b) == Cardinality(DOMAIN b.orders_)

CanMatch(b, side, price) ==
  IF side = Buy
  THEN IF DOMAIN b.asks_ = {} THEN FALSE ELSE price >= AsksBegin(b.asks_)
  ELSE IF DOMAIN b.bids_ = {} THEN FALSE ELSE price <= BidsBegin(b.bids_)

\* CancelOrder that leaves the level of the cancelled order in its side
\* also when the level has become empty
CancelOrderKeepsLevel(b, orderId) ==
  IF b.thrown # NoThrow THEN b
  ELSE IF orderId \notin DOMAIN b.orders_ THEN b
  ELSE
    LET order == b.orders_[orderId]
        b1 == [b EXCEPT !.orders_ = Erase(@, orderId)]
        price == b1.pool_[order].price_
    IN IF b1.pool_[order].side_ = Sell
       THEN LET r == remove(b1.asks_[price], b1.pool_, order)
            IN release([b1 EXCEPT !.pool_ = r.pool, !.asks_ = Put(@, price, r.l)],
                       order)
       ELSE LET r == remove(b1.bids_[price], b1.pool_, order)
            IN release([b1 EXCEPT !.pool_ = r.pool, !.bids_ = Put(@, price, r.l)],
                       order)

\* CancelOrder that leaves the id of the cancelled order in the ID index
CancelOrderKeepsId(b, orderId) ==
  IF b.thrown # NoThrow THEN b
  ELSE IF orderId \notin DOMAIN b.orders_ THEN b
  ELSE
    LET order == b.orders_[orderId]
        price == b.pool_[order].price_
    IN IF b.pool_[order].side_ = Sell
       THEN IF price \notin DOMAIN b.asks_
            THEN [b EXCEPT !.thrown = "out_of_range"]
            ELSE LET r == remove(b.asks_[price], b.pool_, order)
                     b2 == [b EXCEPT !.pool_ = r.pool,
                                     !.asks_ = IF empty(r.l) THEN Erase(@, price)
                                               ELSE Put(@, price, r.l)]
                 IN release(b2, order)
       ELSE IF price \notin DOMAIN b.bids_
            THEN [b EXCEPT !.thrown = "out_of_range"]
            ELSE LET r == remove(b.bids_[price], b.pool_, order)
                     b2 == [b EXCEPT !.pool_ = r.pool,
                                     !.bids_ = IF empty(r.l) THEN Erase(@, price)
                                               ELSE Put(@, price, r.l)]
                 IN release(b2, order)

\* OrderBook::CancelOrder
CancelOrder(b, orderId) ==
  IF b.thrown # NoThrow THEN b
  ELSE IF orderId \notin DOMAIN b.orders_ THEN b
  ELSE
    LET order == b.orders_[orderId]
        b1 == [b EXCEPT !.orders_ = Erase(@, orderId)]
        price == b1.pool_[order].price_
    IN IF b1.pool_[order].side_ = Sell
       THEN IF price \notin DOMAIN b1.asks_
            THEN [b1 EXCEPT !.thrown = "out_of_range"]
            ELSE LET r == remove(b1.asks_[price], b1.pool_, order)
                     b2 == [b1 EXCEPT !.pool_ = r.pool,
                                      !.asks_ = IF empty(r.l) THEN Erase(@, price)
                                                ELSE Put(@, price, r.l)]
                 IN release(b2, order)
       ELSE IF price \notin DOMAIN b1.bids_
            THEN [b1 EXCEPT !.thrown = "out_of_range"]
            ELSE LET r == remove(b1.bids_[price], b1.pool_, order)
                     b2 == [b1 EXCEPT !.pool_ = r.pool,
                                      !.bids_ = IF empty(r.l) THEN Erase(@, price)
                                                ELSE Put(@, price, r.l)]
                 IN release(b2, order)

\* A bid that is not filled is moved from the head to the tail of its level
RetireBidRequeues(b, bid, bidPrice) ==
  IF b.thrown = NoThrow /\ IsFilled(b.pool_[bid])
  THEN LET r == pop_front(b.bids_[bidPrice], b.pool_)
       IN release([b EXCEPT !.bids_ = Put(@, bidPrice, r.l),
                            !.pool_ = r.pool,
                            !.orders_ = Erase(@, b.pool_[bid].orderId_)],
                  bid)
  ELSE IF b.thrown = NoThrow
  THEN LET r == pop_front(b.bids_[bidPrice], b.pool_)
           q == push_back(r.l, r.pool, bid)
       IN [b EXCEPT !.bids_ = Put(@, bidPrice, q.l), !.pool_ = q.pool]
  ELSE b

\* A filled bid leaves its level and the index, but its slot is not released
RetireBidKeepsSlot(b, bid, bidPrice) ==
  IF b.thrown = NoThrow /\ IsFilled(b.pool_[bid])
  THEN LET r == pop_front(b.bids_[bidPrice], b.pool_)
       IN [b EXCEPT !.bids_ = Put(@, bidPrice, r.l),
                    !.pool_ = r.pool,
                    !.orders_ = Erase(@, b.pool_[bid].orderId_)]
  ELSE b

\* Lines 243-247 of MatchOrders: a bid that is filled leaves the head of its
\* level and the ID index, and its slot goes back to the pool.
RetireBid(b, bid, bidPrice) ==
  IF b.thrown = NoThrow /\ IsFilled(b.pool_[bid])
  THEN LET r == pop_front(b.bids_[bidPrice], b.pool_)
       IN release([b EXCEPT !.bids_ = Put(@, bidPrice, r.l),
                            !.pool_ = r.pool,
                            !.orders_ = Erase(@, b.pool_[bid].orderId_)],
                  bid)
  ELSE b

\* Lines 249-253 of MatchOrders: the same for an ask that is filled.
RetireAsk(b, ask, askPrice) ==
  IF b.thrown = NoThrow /\ IsFilled(b.pool_[ask])
  THEN LET r == pop_front(b.asks_[askPrice], b.pool_)
       IN release([b EXCEPT !.asks_ = Put(@, askPrice, r.l),
                            !.pool_ = r.pool,
                            !.orders_ = Erase(@, b.pool_[ask].orderId_)],
                  ask)
  ELSE b

\* A trade that records the price of the bid in both legs
PushTradeOnePrice(b, bid, ask, quantity) ==
  IF b.thrown # NoThrow THEN b
  ELSE [b EXCEPT !.trades_ =
          Append(@, [bidTrade_ |-> [orderId_ |-> b.pool_[bid].orderId_,
                                    price_ |-> b.pool_[bid].price_,
                                    quantity_ |-> quantity],
                     askTrade_ |-> [orderId_ |-> b.pool_[ask].orderId_,
                                    price_ |-> b.pool_[bid].price_,
                                    quantity_ |-> quantity]])]

\* Lines 255-258 of MatchOrders: the trade is appended to trades_.  The ids
\* and prices are read through bid and ask after a possible release, which
\* leaves the slot's contents in place.
PushTrade(b, bid, ask, quantity) ==
  IF b.thrown # NoThrow THEN b
  ELSE [b EXCEPT !.trades_ =
          Append(@, [bidTrade_ |-> [orderId_ |-> b.pool_[bid].orderId_,
                                    price_ |-> b.pool_[bid].price_,
                                    quantity_ |-> quantity],
                     askTrade_ |-> [orderId_ |-> b.pool_[ask].orderId_,
                                    price_ |-> b.pool_[ask].price_,
                                    quantity_ |-> quantity]])]

\* The pass that fills the bid but not the ask
TradeFillsBidOnly(b, bidPrice, askPrice, bid, ask, quantity) ==
  PushTrade(RetireAsk(RetireBid(Fill(b, bid, quantity), bid, bidPrice),
                      ask, askPrice),
            bid, ask, quantity)

\* Lines 240-258 of MatchOrders: both orders are filled by quantity, the
\* filled ones are retired and the trade is recorded.
Trade(b, bidPrice, askPrice, bid, ask, quantity) ==
  PushTrade(RetireAsk(RetireBid(Fill(Fill(b, bid, quantity), ask, quantity),
                                bid, bidPrice),
                      ask, askPrice),
            bid, ask, quantity)

\* Lines 260-264 of MatchOrders: a level that was emptied is erased.
EraseEmptied(b, bidPrice, askPrice) ==
  [b EXCEPT !.bids_ = IF empty(b.bids_[bidPrice]) THEN Erase(@, bidPrice) ELSE @,
            !.asks_ = IF empty(b.asks_[askPrice]) THEN Erase(@, askPrice) ELSE @]

\* The inner while loop of MatchOrders: one pass and, unless a level was
\* emptied, the passes after it.  bidPrice/askPrice are the keys the outer
\* loop bound at bids_.begin() / asks_.begin().
RECURSIVE MatchLevel(_, _, _)
\* the loop after the pass that left b
MatchLevelNext(b, bidPrice, askPrice) ==
  IF b.thrown # NoThrow THEN b
  ELSE IF empty(b.bids_[bidPrice]) \/ empty(b.asks_[askPrice])
  THEN EraseEmptied(b, bidPrice, askPrice)
  ELSE MatchLevel(b, bidPrice, askPrice)

MatchLevel(b, bidPrice, askPrice) ==
  IF b.thrown # NoThrow THEN b
  ELSE IF ~(size(b.bids_[bidPrice]) # 0 /\ size(b.asks_[askPrice]) # 0) THEN b
  ELSE MatchLevelNext(
         Trade(b, bidPrice, askPrice,
               front(b.bids_[bidPrice]), front(b.asks_[askPrice]),
               Min(b.pool_[front(b.bids_[bidPrice])].remainingQuantity_,
                   b.pool_[front(b.asks_[askPrice])].remainingQuantity_)),
         bidPrice, askPrice)

\* The outer loop leaving when bidPrice <= askPrice
RECURSIVE MatchLoopStopsAtEqual(_)
MatchLoopStopsAtEqual(b) ==
  IF b.thrown # NoThrow THEN b
  ELSE IF DOMAIN b.bids_ = {} \/ DOMAIN b.asks_ = {} THEN b
  ELSE LET bidPrice == BidsBegin(b.bids_)
           askPrice == AsksBegin(b.asks_)
       IN IF bidPrice <= askPrice THEN b
          ELSE MatchLoopStopsAtEqual(MatchLevel(b, bidPrice, askPrice))

\* The outer loop without the break on bidPrice < askPrice
RECURSIVE MatchLoopIgnoresPrices(_)
MatchLoopIgnoresPrices(b) ==
  IF b.thrown # NoThrow THEN b
  ELSE IF DOMAIN b.bids_ = {} \/ DOMAIN b.asks_ = {} THEN b
  ELSE MatchLoopIgnoresPrices(MatchLevel(b, BidsBegin(b.bids_), AsksBegin(b.asks_)))

\* The outer while (true) loop of MatchOrders.
RECURSIVE MatchLoop(_)
MatchLoop(b) ==
  IF b.thrown # NoThrow THEN b
  ELSE IF DOMAIN b.bids_ = {} \/ DOMAIN b.asks_ = {} THEN b
  ELSE LET bidPrice == BidsBegin(b.bids_)
           askPrice == AsksBegin(b.asks_)
       IN IF bidPrice < askPrice THEN b
          ELSE MatchLoop(MatchLevel(b, bidPrice, askPrice))

\* The two blocks after the loop: a FillAndKill order at the head of the
\* best level of a side is cancelled.
\* MatchOrders without the block that sweeps the bid side
SweepBidsSkipped(b) == b

SweepBids(b) ==
  IF b.thrown # NoThrow THEN b
  ELSE IF DOMAIN b.bids_ # {}
  THEN LET bids == b.bids_[BidsBegin(b.bids_)]
       IN IF ~empty(bids) /\ b.pool_[front(bids)].orderType_ = FillAndKill
          THEN CancelOrder(b, b.pool_[front(bids)].orderId_)
          ELSE b
  ELSE b

SweepAsks(b) ==
  IF b.thrown # NoThrow THEN b
  ELSE IF DOMAIN b.asks_ # {}
  THEN LET asks == b.asks_[AsksBegin(b.asks_)]
       IN IF ~empty(asks) /\ b.pool_[front(asks)].orderType_ = FillAndKill
          THEN CancelOrder(b, b.pool_[front(asks)].orderId_)
          ELSE b
  ELSE b

\* MatchOrders that does not clear trades_ before the loop
MatchOrdersKeepsTrades(b) ==
  SweepAsks(SweepBids(MatchLoop(b)))

\* OrderBook::MatchOrders; the value returned is a copy of trades_
MatchOrders(b) ==
  SweepAsks(SweepBids(MatchLoop([b EXCEPT !.trades_ = <<>>])))

\* What a function hands back: the book it leaves, the trade list it
\* returns, whether that list is handed back as a reference to a temporary
\* that is destroyed before the caller can read it, and the return statement
\* taken (path).
Outcome(b, trades, dangling, path) ==
  [book |-> b, trades |-> trades, dangling |-> dangling, path |-> path]

\* The part of AddOrder after its two early returns: acquire a slot, append
\* the order to the level of its price on its side, index it by id, and
\* return MatchOrders() ("matched": the order was inserted and MatchOrders
\* ran, with or without trades).
InsertOrder(b, orderType, orderId, side, price, quantity) ==
  LET a == acquire(b, orderType, orderId, side, price, quantity)
      order == a.ptr
      b1 == a.book
  IN IF b1.thrown # NoThrow THEN Outcome(b1, <<>>, FALSE, "exhausted")
     ELSE
       LET r == IF b1.pool_[order].side_ = Buy
                THEN push_back(At(b1.bids_, b1.pool_[order].price_), b1.pool_, order)
                ELSE push_back(At(b1.asks_, b1.pool_[order].price_), b1.pool_, order)
           b2 == IF b1.pool_[order].side_ = Buy
                 THEN [b1 EXCEPT !.bids_ = Put(@, b1.pool_[order].price_, r.l),
                                 !.pool_ = r.pool]
                 ELSE [b1 EXCEPT !.asks_ = Put(@, b1.pool_[order].price_, r.l),
                                 !.pool_ = r.pool]
           b3 == [b2 EXCEPT !.orders_ =
                    [i \in (DOMAIN @) \cup {b2.pool_[order].orderId_} |->
                       IF i \in DOMAIN @ THEN @[i] ELSE order]]
           b4 == MatchOrders(b3)
       IN Outcome(b4, b4.trades_, TRUE, "matched")

\* AddOrder without the check for an id that is already in the index
AddOrderNoDuplicateCheck(b, orderType, orderId, side, price, quantity) ==
  IF orderType = FillAndKill /\ ~CanMatch(b, side, price)
  THEN Outcome(b, <<>>, TRUE, "dropped")
  ELSE InsertOrder(b, orderType, orderId, side, price, quantity)

\* OrderBook::AddOrder.  Its return type is const Trades&: the duplicate
\* branch returns the member trades_, the other two returns bind the
\* reference to a temporary (return {}; and return MatchOrders();).
AddOrder(b, orderType, orderId, side, price, quantity) ==
  IF orderId \in DOMAIN b.orders_
  THEN Outcome([b EXCEPT !.trades_ = <<>>], <<>>, FALSE, "duplicate")
  ELSE IF orderType = FillAndKill /\ ~CanMatch(b, side, price)
  THEN Outcome(b, <<>>, TRUE, "dropped")
  ELSE InsertOrder(b, orderType, orderId, side, price, quantity)

\* MatchOrder that re-submits an id it does not find as a new order
MatchOrderUpsert(b, orderId, side, price, quantity) ==
  AddOrder(CancelOrder(b, orderId), GoodTillCancel, orderId, side, price, quantity)

\* OrderBook::MatchOrder (modify).  It returns Trades by value, copied from
\* the reference AddOrder returns.  An exception thrown by CancelOrder
\* leaves MatchOrder at once ("threw"): AddOrder is not called.
MatchOrder(b, orderId, side, price, quantity) ==
  IF orderId \notin DOMAIN b.orders_ THEN Outcome(b, <<>>, FALSE, "unknown")
  ELSE LET existingOrder == b.orders_[orderId]
           type == b.pool_[existingOrder].orderType_
           cancelled == CancelOrder(b, orderId)
       IN IF cancelled.thrown # NoThrow
          THEN Outcome(cancelled, <<>>, FALSE, "threw")
          ELSE AddOrder(cancelled, type, orderId, side, price, quantity)

\* The Quantity q as its two 16-bit halves
Halves(q) == <<q \div Half, q % Half>>

\* runningSum + order->GetRemainingQuantity() in Quantity: the sum modulo
\* 2^32, on halves
Add32(runningSum, q) ==
  <<(runningSum[1] + (q \div Half) + ((runningSum[2] + (q % Half)) \div Half)) % Half,
    (runningSum[2] + (q % Half)) % Half>>

\* std::accumulate(orders.begin(), orders.end(), (Quantity)0, ...) over the
\* nodes of a list
RECURSIVE accumulate(_, _, _)
accumulate(pool, nodes, runningSum) ==
  IF nodes = <<>> THEN runningSum
  ELSE accumulate(pool, Tail(nodes),
                  Add32(runningSum, pool[Head(nodes)].remainingQuantity_))

\* the lambda CreateLevelInfos of GetOrderInfos
CreateLevelInfos(b, price, orders) ==
  [price_ |-> price, quantity_ |-> accumulate(b.pool_, Nodes(orders, b.pool_), Halves(0))]

\* OrderBook::GetOrderInfos: one LevelInfo per level of each side, in the
\* order of iteration of the side
GetOrderInfos(b) ==
  [bids_ |-> [i \in 1..Len(BidsKeys(b.bids_)) |->
                CreateLevelInfos(b, BidsKeys(b.bids_)[i], b.bids_[BidsKeys(b.bids_)[i]])],
   asks_ |-> [i \in 1..Len(AsksKeys(b.asks_)) |->
                CreateLevelInfos(b, AsksKeys(b.asks_)[i], b.asks_[AsksKeys(b.asks_)[i]])]]

\* ------------------------------------------------------------------ state
\* The members of OrderBook (bids_, asks_, orders_, trades_), the members of
\* its ObjectPool (pool_, free_indices_), what the caller gets back from the
\* last call (ret), a record of that call (last), the number of calls made
\* so far (calls) and, for every id, the number of the call that last put an
\* order with that id into the book (arrived, 0 when there was none).
\* filled records, for every id that is in the book, the quantity of the
\* trades emitted so far with that order as a leg (0 for an id that is not
\* in the book).
VARIABLES bids_, asks_, orders_, trades_, pool_, free_indices_, ret, last, calls,
          arrived, filled

vars == <<bids_, asks_, orders_, trades_, pool_, free_indices_, ret, last, calls,
          arrived, filled>>

\* the book held by the state variables
Book ==
  [bids_ |-> bids_, asks_ |-> asks_, orders_ |-> orders_, trades_ |-> trades_,
   pool_ |-> pool_, free_indices_ |-> free_indices_, thrown |-> NoThrow]

\* the state variables become book b
Becomes(to) == \E b \in {to} :
  /\ bids_' = b.bids_
  /\ asks_' = b.asks_
  /\ orders_' = b.orders_
  /\ trades_' = b.trades_
  /\ pool_' = b.pool_
  /\ free_indices_' = b.free_indices_
  /\ calls' = calls + 1

\* The call recorded in last: the operation, the return statement it took
\* and the id it was given.
Call(op, path, orderId) == [op |-> op, path |-> path, orderId |-> orderId]

\* What the caller gets back from AddOrder, which ended as o.  An exception
\* reaches the caller as such.  The reference returned by the duplicate
\* branch is to the member trades_ and yields its list ("value").  The
\* reference returned by the other branches is to a temporary destroyed by
\* the return statement: the caller holds a dangling reference and no list
\* ("dangling"); reading through it is undefined.
Returned(o) ==
  IF o.book.thrown # NoThrow THEN [status |-> o.book.thrown, trades |-> <<>>]
  ELSE IF o.dangling THEN [status |-> "dangling", trades |-> <<>>]
  ELSE [status |-> "value", trades |-> o.trades]

\* What the caller gets back from MatchOrder, which ended as o.  MatchOrder
\* returns Trades by value.  On the path through AddOrder the value is copied
\* out of the reference AddOrder returned, and where that reference dangles
\* the copy is undefined: it finds the list still intact ("value") or the
\* process dies in the copy ("crashed").
Copied(o) ==
  IF o.book.thrown # NoThrow
  THEN {[status |-> o.book.thrown, trades |-> <<>>]}
  ELSE IF o.dangling
  THEN {[status |-> "value", trades |-> o.trades],
        [status |-> "crashed", trades |-> <<>>]}
  ELSE {[status |-> "value", trades |-> o.trades]}

\* the quantity carried by the legs of the trades T that name order id
RECURSIVE TradedIn(_, _)
TradedIn(T, id) ==
  IF T = <<>> THEN 0
  ELSE (IF Head(T).bidTrade_.orderId_ = id THEN Head(T).bidTrade_.quantity_ ELSE 0)
       + (IF Head(T).askTrade_.orderId_ = id THEN Head(T).askTrade_.quantity_ ELSE 0)
       + TradedIn(Tail(T), id)

\* The trades a call that ended as o has emitted: MatchOrders ran only on
\* the path "matched"; on the other paths trades_ holds no new trade.
Emitted(o) == IF o.path = "matched" THEN o.book.trades_ ELSE <<>>

\* filled after an add or modify of orderId that ended as o: the order the
\* call inserted starts at 0, every order gains the quantity of its legs in
\* the trades emitted, and an id that is no longer in the book is reset.
Accrued(o, orderId) ==
  [id \in OrderIds |->
     IF id \notin DOMAIN o.book.orders_ THEN 0
     ELSE (IF o.path = "matched" /\ id = orderId THEN 0 ELSE filled[id])
          + TradedIn(Emitted(o), id)]

\* The caller has calls left and the process is alive: the last call came
\* back to the caller ("value", or "dangling" as long as the reference is not
\* read).  The driver loop has no try/catch, so an exception that leaves a
\* call ends the process (std::terminate), like a crash in the copy.
Running(maxCalls) == ret.status \in {"value", "dangling"} /\ calls < maxCalls

\* the state after OrderBook() with a pool of capacity slots
InitWith(capacity) ==
  /\ bids_ = NewBook(capacity).bids_
  /\ asks_ = NewBook(capacity).asks_
  /\ orders_ = NewBook(capacity).orders_
  /\ trades_ = NewBook(capacity).trades_
  /\ pool_ = NewBook(capacity).pool_
  /\ free_indices_ = NewBook(capacity).free_indices_
  /\ ret = [status |-> "value", trades |-> <<>>]
  /\ last = Call("init", "none", 0)
  /\ calls = 0
  /\ arrived = [id \in OrderIds |-> 0]
  /\ filled = [id \in OrderIds |-> 0]

Init == InitWith(CAP)

\* a book whose pool has fewer slots than the caller has ids
InitFull == InitWith(SmallCap)

\* the caller calls AddOrder with a quantity of Q
DoAddOrder(Q, maxCalls) ==
  /\ Running(maxCalls)
  /\ \E orderType \in OrderType, orderId \in OrderIds, side \in Side,
        price \in Prices, quantity \in Q :
       \E o \in {AddOrder(Book, orderType, orderId, side, price, quantity)} :
          /\ Becomes([o.book EXCEPT !.thrown = NoThrow])
          /\ ret' = Returned(o)
          /\ last' = Call("add", o.path, orderId)
          /\ arrived' = IF o.path = "matched"
                        THEN [arrived EXCEPT ![orderId] = calls + 1] ELSE arrived
          /\ filled' = Accrued(o, orderId)

\* the caller calls CancelOrder
DoCancelOrder(maxCalls) ==
  /\ Running(maxCalls)
  /\ \E orderId \in OrderIds :
       \E b \in {CancelOrder(Book, orderId)} :
          /\ Becomes([b EXCEPT !.thrown = NoThrow])
          /\ ret' = [status |-> IF b.thrown # NoThrow THEN b.thrown ELSE "value",
                     trades |-> <<>>]
          /\ last' = Call("cancel", IF orderId \in DOMAIN orders_
                                    THEN "cancelled" ELSE "unknown",
                          orderId)
          /\ arrived' = arrived
          /\ filled' = [filled EXCEPT ![orderId] = 0]

\* the caller calls MatchOrder (modify) with a quantity of Q
DoMatchOrder(Q, maxCalls) ==
  /\ Running(maxCalls)
  /\ \E orderId \in OrderIds, side \in Side, price \in Prices, quantity \in Q :
       \E o \in {MatchOrder(Book, orderId, side, price, quantity)} :
          /\ Becomes([o.book EXCEPT !.thrown = NoThrow])
          /\ ret' \in Copied(o)
          /\ last' = Call("modify", o.path, orderId)
          /\ arrived' = IF o.path = "matched"
                        THEN [arrived EXCEPT ![orderId] = calls + 1] ELSE arrived
          /\ filled' = Accrued(o, orderId)

\* the caller calls GetOrderInfos and keeps the value returned
DoGetOrderInfos(maxCalls) ==
  /\ Running(maxCalls)
  /\ ret' = [status |-> "value", trades |-> <<>>, infos |-> GetOrderInfos(Book)]
  /\ last' = Call("infos", "none", 0)
  /\ calls' = calls + 1
  /\ UNCHANGED <<bids_, asks_, orders_, trades_, pool_, free_indices_, arrived, filled>>

\* Every sequence of at most MaxCalls calls, with every quantity 0..MaxQty.
Next ==
  \/ DoAddOrder(Quantities, MaxCalls)
  \/ DoCancelOrder(MaxCalls)
  \/ DoMatchOrder(Quantities, MaxCalls)

Spec == Init /\ [][Next]_vars

\* Every sequence of at most DeepCalls calls, with the quantities 1..MaxQty.
NextDeep ==
  \/ DoAddOrder(PositiveQuantities, DeepCalls)
  \/ DoCancelOrder(DeepCalls)
  \/ DoMatchOrder(PositiveQuantities, DeepCalls)

SpecDeep == Init /\ [][NextDeep]_vars

\* Every sequence of at most DeepCalls calls, GetOrderInfos among them, with
\* the quantities 1 and BigQty.
NextInfos ==
  \/ DoAddOrder(WideQuantities, DeepCalls)
  \/ DoCancelOrder(DeepCalls)
  \/ DoMatchOrder(WideQuantities, DeepCalls)
  \/ DoGetOrderInfos(DeepCalls)

SpecInfos == Init /\ [][NextInfos]_vars

\* Every sequence of at most MaxCalls calls on a book of SmallCap slots.
SpecFull == InitFull /\ [][Next]_vars

\* ------------------------------------------------------------------ views
\* the price levels stored, as <<side, price>>
AllLevels == {<<Buy, p>> : p \in DOMAIN bids_} \cup {<<Sell, p>> : p \in DOMAIN asks_}

\* the slots of the orders queued at a level, head first
NodesAt(lv) ==
  IF lv[1] = Buy THEN Nodes(bids_[lv[2]], pool_) ELSE Nodes(asks_[lv[2]], pool_)

Occurrences(seq, x) == Cardinality({i \in 1..Len(seq) : seq[i] = x})

RECURSIVE SumOver(_, _)
SumOver(S, f) ==
  IF S = {} THEN 0
  ELSE LET x == CHOOSE y \in S : TRUE IN f[x] + SumOver(S \ {x}, f)

\* the number of orders queued over all levels of both sides
QueuedOrders == SumOver(AllLevels, [lv \in AllLevels |-> Len(NodesAt(lv))])

\* the bid or the ask leg of trade t, by the side of the order
Leg(t, side) == IF side = Buy THEN t.bidTrade_ ELSE t.askTrade_

\* In the list of trades T, order id has left the book before trade k is
\* made: it is not resting after the call and all its trades precede k.
GoneBefore(T, resting, id, side, k) ==
  /\ id \notin resting
  /\ \A j \in 1..Len(T) : Leg(T[j], side).orderId_ = id => j < k

\* ------------------------------------------------------------------ claims

\* C1: whenever both sides are non-empty, the best (highest) bid price is
\* strictly below the best (lowest) ask price.
NoCrossedBook ==
  (DOMAIN bids_ # {} /\ DOMAIN asks_ # {}) =>
    \A bp \in DOMAIN bids_, ap \in DOMAIN asks_ : bp < ap

\* C1 witness: a call has traded and left orders resting on both sides.
NoCrossedBookWitness ==
  /\ last.path = "matched"
  /\ trades_ # <<>>
  /\ DOMAIN bids_ # {}
  /\ DOMAIN asks_ # {}

\* C2: the ID index and the FIFOs agree.  Every id of the index maps to an
\* order carrying that id which is queued exactly once, at the level of its
\* own side and price and at no other level; every order queued at a level
\* is the one the index holds for its id; so size() is the number of orders
\* queued over all levels.
IndexAgreesWithFifos ==
  /\ \A id \in DOMAIN orders_ :
       LET o == orders_[id] IN
       /\ pool_[o].orderId_ = id
       /\ <<pool_[o].side_, pool_[o].price_>> \in AllLevels
       /\ \A lv \in AllLevels :
            Occurrences(NodesAt(lv), o) =
              IF lv = <<pool_[o].side_, pool_[o].price_>> THEN 1 ELSE 0
  /\ \A lv \in AllLevels : \A i \in 1..Len(NodesAt(lv)) :
       LET n == NodesAt(lv)[i] IN
       /\ pool_[n].orderId_ \in DOMAIN orders_
       /\ orders_[pool_[n].orderId_] = n
  /\ Size(Book) = QueuedOrders

\* C2 witness: after a call that traded, two orders rest, one on each side.
IndexAgreesWithFifosWitness ==
  /\ last.path = "matched"
  /\ trades_ # <<>>
  /\ Size(Book) = 2
  /\ DOMAIN bids_ # {}
  /\ DOMAIN asks_ # {}

\* C3: time priority within a level.  When a call makes trade k with order x
\* as a leg, every other order that was resting at x's price on x's side and
\* had arrived before x has left the book before trade k: it is no longer
\* resting and all its trades come before k.
TimePriority ==
  [][last'.path = "matched" =>
       \A k \in 1..Len(trades_') :
         \A y \in (DOMAIN orders_) \ {last'.orderId} :
           LET oy == pool_[orders_[y]]
               x == Leg(trades_'[k], oy.side_)
           IN (x.price_ = oy.price_ /\ x.orderId_ # y
                 /\ arrived[y] < arrived'[x.orderId_])
                => GoneBefore(trades_', DOMAIN orders_', y, oy.side_, k)]_vars

\* C3 witness: one call traded with two bids of one price, first with the
\* one that arrived first.
TimePriorityWitness ==
  /\ last.path = "matched"
  /\ Len(trades_) = 2
  /\ trades_[1].bidTrade_.orderId_ # trades_[2].bidTrade_.orderId_
  /\ trades_[1].bidTrade_.price_ = trades_[2].bidTrade_.price_
  /\ arrived[trades_[1].bidTrade_.orderId_] < arrived[trades_[2].bidTrade_.orderId_]

\* C4: price priority across levels.  When a call makes trade k, every order
\* that was resting at a better price than the trade's leg on its side (an
\* ask below the ask leg, a bid above the bid leg) has left the book before
\* trade k; along the trades of one call ask leg prices never decrease and
\* bid leg prices never increase; and after the call no ask rests below a
\* traded ask and no bid rests above a traded bid.
PricePriority ==
  [][last'.path = "matched" =>
       /\ \A k \in 1..Len(trades_') :
            \A y \in (DOMAIN orders_) \ {last'.orderId} :
              LET oy == pool_[orders_[y]]
                  x == Leg(trades_'[k], oy.side_)
              IN ((oy.side_ = Sell /\ oy.price_ < x.price_)
                    \/ (oy.side_ = Buy /\ oy.price_ > x.price_))
                   => GoneBefore(trades_', DOMAIN orders_', y, oy.side_, k)
       /\ \A k \in 1..(Len(trades_') - 1) :
            /\ trades_'[k].askTrade_.price_ <= trades_'[k + 1].askTrade_.price_
            /\ trades_'[k].bidTrade_.price_ >= trades_'[k + 1].bidTrade_.price_
       /\ \A k \in 1..Len(trades_') :
            /\ \A ap \in DOMAIN asks_' : ap >= trades_'[k].askTrade_.price_
            /\ \A bp \in DOMAIN bids_' : bp <= trades_'[k].bidTrade_.price_]_vars

\* C4 witness: one crossing buy traded with asks of two prices, the lower
\* price first.
PricePriorityWitness ==
  /\ last.path = "matched"
  /\ Len(trades_) = 2
  /\ trades_[1].bidTrade_.orderId_ = trades_[2].bidTrade_.orderId_
  /\ trades_[1].askTrade_.price_ < trades_[2].askTrade_.price_

\* C5: no FillAndKill order is in the ID index or queued at any level.
FakNeverRests ==
  /\ \A id \in DOMAIN orders_ : pool_[orders_[id]].orderType_ # FillAndKill
  /\ \A lv \in AllLevels : \A i \in 1..Len(NodesAt(lv)) :
       pool_[NodesAt(lv)[i]].orderType_ # FillAndKill

\* C5 witness: a FillAndKill order was inserted, traded part of its quantity
\* and was cancelled by the sweep: its released slot still shows the rest.
FakNeverRestsWitness ==
  /\ last.op = "add"
  /\ last.path = "matched"
  /\ trades_ # <<>>
  /\ last.orderId \notin DOMAIN orders_
  /\ \E i \in 1..Len(free_indices_) :
       LET o == pool_[free_indices_[i]] IN
       /\ o.orderId_ = last.orderId
       /\ o.orderType_ = FillAndKill
       /\ o.remainingQuantity_ > 0
       /\ o.remainingQuantity_ < o.initialQuantity_

\* the fields of an order other than its list links
Fields(o) ==
  [orderType_ |-> o.orderType_, orderId_ |-> o.orderId_, side_ |-> o.side_,
   price_ |-> o.price_, initialQuantity_ |-> o.initialQuantity_,
   remainingQuantity_ |-> o.remainingQuantity_]

\* sequence seq without the entries equal to x
Without(seq, x) == LET Keep(n) == n # x IN SelectSeq(seq, Keep)

\* the slots on the free stack
FreeSet == {free_indices_[i] : i \in 1..Len(free_indices_)}

\* the number of pool slots in use
Occupied(b) == Cardinality(DOMAIN b.pool_) - Len(b.free_indices_)

\* neither the ID index, nor a side, nor an order, nor the free stack changes
BookUnchanged == UNCHANGED <<bids_, asks_, orders_, pool_, free_indices_>>

\* C6: an add of a FillAndKill order whose id is not resting and that cannot
\* match returns an empty trade list and leaves the ID index, both sides,
\* every order and the free stack unchanged.
FakDroppedReturnsEmpty ==
  [][(last'.op = "add" /\ last'.orderId \notin DOMAIN orders_
        /\ last'.path = "dropped")
       => (ret' = [status |-> "value", trades |-> <<>>] /\ BookUnchanged)]_vars

\* C7: an add with an id that is in the ID index returns an empty trade list
\* and leaves the ID index, both sides, every order (with its links, so its
\* queue position) and the free stack unchanged.
DuplicateAddIsNoOp ==
  [][(last'.op = "add" /\ last'.orderId \in DOMAIN orders_)
       => (ret' = [status |-> "value", trades |-> <<>>] /\ BookUnchanged)]_vars

\* C7 witness: a duplicate add was made for an order that rests partly
\* filled, and the caller got an empty list.
DuplicateAddIsNoOpWitness ==
  /\ last.op = "add"
  /\ last.path = "duplicate"
  /\ ret = [status |-> "value", trades |-> <<>>]
  /\ last.orderId \in DOMAIN orders_
  /\ pool_[orders_[last.orderId]].remainingQuantity_ > 0
  /\ pool_[orders_[last.orderId]].remainingQuantity_
       < pool_[orders_[last.orderId]].initialQuantity_

\* C8: cancel of a resting order removes exactly that order.  The id leaves
\* the index and every other id keeps its order with the same fields; every
\* level keeps its orders in the same sequence without the cancelled one;
\* the level of the cancelled order is erased iff it had no other order and
\* no other level is erased or created; the slot is pushed on the free
\* stack; no trade is produced.
CancelRemovesExactlyOne ==
  [][(last'.op = "cancel" /\ last'.orderId \in DOMAIN orders_) =>
       LET id == last'.orderId
           o == orders_[id]
           lv == <<pool_[o].side_, pool_[o].price_>>
       IN /\ DOMAIN orders_' = (DOMAIN orders_) \ {id}
          /\ \A i \in DOMAIN orders_' :
               /\ orders_'[i] = orders_[i]
               /\ Fields(pool_'[orders_'[i]]) = Fields(pool_[orders_[i]])
          /\ AllLevels' = IF Len(NodesAt(lv)) = 1 THEN AllLevels \ {lv} ELSE AllLevels
          /\ \A l \in AllLevels' : NodesAt(l)' = Without(NodesAt(l), o)
          /\ free_indices_' = Append(free_indices_, o)
          /\ trades_' = trades_
          /\ ret'.trades = <<>>]_vars

\* C8 witness: the cancelled order was queued between two orders of its
\* level, which still rest there in their order of arrival.
CancelRemovesExactlyOneWitness ==
  /\ last.op = "cancel"
  /\ last.path = "cancelled"
  /\ free_indices_ # <<>>
  /\ LET gone == pool_[free_indices_[Len(free_indices_)]] IN
     /\ gone.orderId_ = last.orderId
     /\ <<gone.side_, gone.price_>> \in AllLevels
     /\ LET nodes == NodesAt(<<gone.side_, gone.price_>>) IN
        /\ Len(nodes) = 2
        /\ arrived[pool_[nodes[1]].orderId_] < arrived[gone.orderId_]
        /\ arrived[gone.orderId_] < arrived[pool_[nodes[2]].orderId_]

\* C9: cancel and modify of an id that is not in the ID index change
\* nothing, and modify returns an empty trade list.
UnknownIdIsNoOp ==
  [][(last'.op \in {"cancel", "modify"} /\ last'.orderId \notin DOMAIN orders_)
       => /\ BookUnchanged
          /\ trades_' = trades_
          /\ ret' = [status |-> "value", trades |-> <<>>]]_vars

\* C9 witness: a cancel of an id that was in the book earlier and has left
\* it, made on a book that holds other orders.
UnknownIdIsNoOpWitness ==
  /\ last.op = "cancel"
  /\ last.path = "unknown"
  /\ arrived[last.orderId] > 0
  /\ Size(Book) > 0

\* C10 as stated: after any add, a cancel of the same id leaves size() and
\* the number of occupied slots at their values before the add.
RoundTripRestores ==
  [][last'.op = "add" =>
       LET b == CancelOrder(Book', last'.orderId)
       IN /\ Size(b) = Size(Book)
          /\ Occupied(b) = Occupied(Book)]_vars

\* C10 amended: after an add of an id that was not resting, which left every
\* order that was resting before it in the book, a cancel of the same id
\* leaves size() and the number of occupied slots at their values before
\* the add.
RoundTripRestoresUnlessFilled ==
  [][(last'.op = "add" /\ last'.orderId \notin DOMAIN orders_
        /\ DOMAIN orders_ \subseteq DOMAIN orders_')
       => LET b == CancelOrder(Book', last'.orderId)
          IN /\ Size(b) = Size(Book)
             /\ Occupied(b) = Occupied(Book)]_vars

\* C10 witness: an add without trades has put its order beside another one,
\* so the cancel of the round trip has an order to remove.
RoundTripRestoresWitness ==
  /\ last.op = "add"
  /\ last.path = "matched"
  /\ trades_ = <<>>
  /\ last.orderId \in DOMAIN orders_
  /\ Size(Book) >= 2

\* C11: pool accounting.  Every acquire pops one index off the free stack
\* and every release pushes one, and the stack starts with one index per
\* slot, so acquires minus releases is the capacity minus the length of the
\* free stack: that number equals size().
PoolAccounting ==
  Cardinality(DOMAIN pool_) - Len(free_indices_) = Size(Book)

\* C11 witness: a call has filled and released a resting order while another
\* order stays in the book.
PoolAccountingWitness ==
  /\ last.path = "matched"
  /\ trades_ # <<>>
  /\ Size(Book) = 1
  /\ Len(free_indices_) = Cardinality(DOMAIN pool_) - 1
  /\ \E i \in 1..Len(free_indices_) :
       /\ pool_[free_indices_[i]].orderId_ \in OrderIds
       /\ pool_[free_indices_[i]].orderId_ # last.orderId
       /\ pool_[free_indices_[i]].initialQuantity_ > 0
       /\ IsFilled(pool_[free_indices_[i]])

\* the number of levels at which slot s is queued, counted with multiplicity
TimesQueued(s) ==
  SumOver(AllLevels, [lv \in AllLevels |-> Occurrences(NodesAt(lv), s)])

\* C12: slot ownership.  Every slot either holds an order of the ID index
\* (under exactly one id, the one the order carries) that is queued exactly
\* once, at the level of its side and price, and is not on the free stack;
\* or is on the free stack exactly once, in no queue and under no id.
SlotOwnership ==
  \A s \in DOMAIN pool_ :
    LET ids == {id \in DOMAIN orders_ : orders_[id] = s}
        lv == <<pool_[s].side_, pool_[s].price_>>
    IN \/ /\ ids = {pool_[s].orderId_}
          /\ lv \in AllLevels
          /\ Occurrences(NodesAt(lv), s) = 1
          /\ TimesQueued(s) = 1
          /\ Occurrences(free_indices_, s) = 0
       \/ /\ ids = {}
          /\ TimesQueued(s) = 0
          /\ Occurrences(free_indices_, s) = 1

\* C12 witness: a slot that was released has been acquired again for another
\* order, beside a slot that is still free and one held since before.
SlotOwnershipWitness ==
  /\ last.path = "matched"
  /\ Size(Book) = 2
  /\ \E id \in DOMAIN orders_ :
       /\ id = last.orderId
       /\ arrived[id] = calls
       /\ \E other \in OrderIds \ DOMAIN orders_ :
            /\ arrived[other] > 0
            /\ arrived[other] < arrived[id]
  /\ \E id \in DOMAIN orders_ : arrived[id] = 1

\* the trades the call just made has emitted
EmittedNow == IF last.path = "matched" THEN trades_ ELSE <<>>

\* The slot the call being made acquires if it inserts an order: the top of
\* the free stack, which for a modify is the slot its cancel has released.
IncomingSlot ==
  IF last'.op = "modify" /\ last'.orderId \in DOMAIN orders_
  THEN orders_[last'.orderId]
  ELSE free_indices_[Len(free_indices_)]

\* C13: conservation of quantity.  Both legs of every trade emitted carry
\* the same quantity.  For every order in the book after a call, the
\* quantity of all its trades so far is its initial minus its remaining
\* quantity.  The same holds at the end of the call in which an order leaves
\* the book (its slot keeps its quantities): for an order that was resting
\* before the call, and for the order the call inserted.
QuantityConserved ==
  [][/\ \A k \in 1..Len(EmittedNow') :
          EmittedNow'[k].bidTrade_.quantity_ = EmittedNow'[k].askTrade_.quantity_
     /\ \A id \in DOMAIN orders_' :
          filled'[id] = GetFilledQuantity(pool_'[orders_'[id]])
     /\ \A id \in (DOMAIN orders_) \ (DOMAIN orders_') :
          (last'.op = "modify" /\ last'.orderId = id)
          \/ /\ pool_'[orders_[id]].orderId_ = id
             /\ pool_'[orders_[id]].initialQuantity_
                  = pool_[orders_[id]].initialQuantity_
             /\ filled[id] + TradedIn(EmittedNow', id)
                  = GetFilledQuantity(pool_'[orders_[id]])
     /\ last'.path = "matched" =>
          /\ pool_'[IncomingSlot].orderId_ = last'.orderId
          /\ TradedIn(EmittedNow', last'.orderId)
               = GetFilledQuantity(pool_'[IncomingSlot])]_vars

\* C13 witness: an order left the book in a trade for part of its initial
\* quantity, the rest having been traded in an earlier call.
QuantityConservedWitness ==
  /\ last.path = "matched"
  /\ \E s \in FreeSet :
       /\ pool_[s].orderId_ \in OrderIds \ {last.orderId}
       /\ pool_[s].orderId_ \notin DOMAIN orders_
       /\ IsFilled(pool_[s])
       /\ TradedIn(trades_, pool_[s].orderId_) > 0
       /\ TradedIn(trades_, pool_[s].orderId_) < pool_[s].initialQuantity_

\* C14: monotone remaining.  An order that stays in the book over a call
\* (same id, same insertion) keeps its slot and its initial quantity and its
\* remaining quantity does not grow; the remaining quantity of an order in
\* the book never exceeds its initial quantity; and after a call no order
\* whose remaining quantity is 0 is in the ID index or queued at a level.
MonotoneRemaining ==
  [][/\ \A id \in (DOMAIN orders_) \cap (DOMAIN orders_') :
          arrived'[id] = arrived[id] =>
            /\ orders_'[id] = orders_[id]
            /\ pool_'[orders_'[id]].initialQuantity_
                 = pool_[orders_[id]].initialQuantity_
            /\ pool_'[orders_'[id]].remainingQuantity_
                 <= pool_[orders_[id]].remainingQuantity_
     /\ \A id \in DOMAIN orders_' :
          /\ pool_'[orders_'[id]].remainingQuantity_
               <= pool_'[orders_'[id]].initialQuantity_
          /\ ~IsFilled(pool_'[orders_'[id]])
     /\ \A lv \in AllLevels' : \A i \in 1..Len(NodesAt(lv)') :
          ~IsFilled(pool_'[NodesAt(lv)'[i]])]_vars

\* the slot of the order queued last at level lv
LastNode(lv) == NodesAt(lv)[Len(NodesAt(lv))]

\* the id of the i-th order queued at level lv
QueuedId(lv, i) == pool_[NodesAt(lv)[i]].orderId_

\* C15: modify of a resting order behaves as cancel followed by add with the
\* type the order had.  For some side, price and quantity of the event the
\* book after the call is the book cancel-then-add leaves, the caller gets
\* the list of trades that add has emitted, and if the re-submitted order
\* stays in the book it is the last order of its level, with the event's
\* quantity as initial quantity and nothing filled but by those trades.
ModifyIsCancelThenAdd ==
  [][(last'.op = "modify" /\ last'.orderId \in DOMAIN orders_) =>
       \E side \in Side, price \in Prices, quantity \in Quantities :
         LET id == last'.orderId
             type == pool_[orders_[id]].orderType_
             o == AddOrder(CancelOrder(Book, id), type, id, side, price, quantity)
         IN /\ bids_' = o.book.bids_
            /\ asks_' = o.book.asks_
            /\ orders_' = o.book.orders_
            /\ pool_' = o.book.pool_
            /\ free_indices_' = o.book.free_indices_
            /\ trades_' = o.book.trades_
            /\ ret' = [status |-> "value", trades |-> Emitted(o)]
            /\ id \in DOMAIN orders_' =>
                 LET n == pool_'[orders_'[id]]
                 IN /\ n.side_ = side
                    /\ n.price_ = price
                    /\ n.initialQuantity_ = quantity
                    /\ n.remainingQuantity_ = quantity - TradedIn(Emitted(o), id)
                    /\ <<side, price>> \in AllLevels'
                    /\ LastNode(<<side, price>>)' = orders_'[id]]_vars

\* C15 apart from the value returned: the book after a modify of a resting
\* order, and the place and quantities of the re-submitted order.
ModifyBookIsCancelThenAdd ==
  [][(last'.op = "modify" /\ last'.orderId \in DOMAIN orders_) =>
       \E side \in Side, price \in Prices, quantity \in Quantities :
         LET id == last'.orderId
             type == pool_[orders_[id]].orderType_
             o == AddOrder(CancelOrder(Book, id), type, id, side, price, quantity)
         IN /\ Book' = o.book
            /\ id \in DOMAIN orders_' =>
                 LET n == pool_'[orders_'[id]]
                 IN /\ n.side_ = side
                    /\ n.price_ = price
                    /\ n.initialQuantity_ = quantity
                    /\ n.remainingQuantity_ = quantity - TradedIn(Emitted(o), id)
                    /\ <<side, price>> \in AllLevels'
                    /\ LastNode(<<side, price>>)' = orders_'[id]
                    /\ \A i \in 1..(Len(NodesAt(<<side, price>>)') - 1) :
                         arrived'[QueuedId(<<side, price>>, i)'] < arrived'[id]]_vars

\* C16: add to a pool without a free slot.  A duplicate id and a
\* FillAndKill order that cannot match return an empty list without failing;
\* every other add fails with the pool's runtime_error and leaves the ID
\* index, both sides, every order and the free stack as they were; and a
\* modify of a resting order does not fail with that error.
FullPoolAddIsAtomic ==
  [][/\ (last'.op = "add" /\ free_indices_ = <<>>) =>
          IF last'.orderId \in DOMAIN orders_ \/ last'.path = "dropped"
          THEN ret' = [status |-> "value", trades |-> <<>>] /\ BookUnchanged
          ELSE ret'.status = "runtime_error" /\ BookUnchanged
     /\ (last'.op = "modify" /\ last'.orderId \in DOMAIN orders_) =>
          ret'.status # "runtime_error"]_vars

\* C16 apart from the value returned for a FillAndKill order that cannot
\* match: such an add to a full pool does not fail and changes nothing.
FullPoolAddInstallsNothing ==
  [][/\ (last'.op = "add" /\ free_indices_ = <<>>) =>
          /\ BookUnchanged
          /\ last'.path \in {"duplicate", "dropped", "exhausted"}
          /\ last'.path = "duplicate" <=> last'.orderId \in DOMAIN orders_
          /\ last'.path = "duplicate" => ret' = [status |-> "value", trades |-> <<>>]
          /\ last'.path = "dropped" => ret'.status = "dangling"
          /\ last'.path = "exhausted" <=> ret'.status = "runtime_error"
     /\ (last'.op = "modify" /\ last'.orderId \in DOMAIN orders_) =>
          ret'.status # "runtime_error"]_vars

\* an add to a full pool has failed with the pool's error
FullPoolAddFailed ==
  /\ last.op = "add"
  /\ last.path = "exhausted"
  /\ ret.status = "runtime_error"
  /\ free_indices_ = <<>>
  /\ Size(Book) = SmallCap

\* the list stored at level lv
ListAt(lv) == IF lv[1] = Buy THEN bids_[lv[2]] ELSE asks_[lv[2]]

\* C17: level storage.  No level stored on either side is empty; iterating
\* over the bid side visits every stored price once, in strictly descending
\* order, and iterating over the ask side visits every stored price once, in
\* strictly ascending order.
LevelStorage ==
  /\ \A lv \in AllLevels :
       /\ ~empty(ListAt(lv))
       /\ size(ListAt(lv)) > 0
       /\ NodesAt(lv) # <<>>
  /\ {BidsKeys(bids_)[i] : i \in 1..Len(BidsKeys(bids_))} = DOMAIN bids_
  /\ {AsksKeys(asks_)[i] : i \in 1..Len(AsksKeys(asks_))} = DOMAIN asks_
  /\ \A i, j \in 1..Len(BidsKeys(bids_)) :
       i < j => BidsKeys(bids_)[i] > BidsKeys(bids_)[j]
  /\ \A i, j \in 1..Len(AsksKeys(asks_)) :
       i < j => AsksKeys(asks_)[i] < AsksKeys(asks_)[j]

\* C17 witness: the cancel of the only order of a level has erased that
\* level, and another level is left on that side.
LevelStorageWitness ==
  /\ last.op = "cancel"
  /\ last.path = "cancelled"
  /\ free_indices_ # <<>>
  /\ LET gone == pool_[free_indices_[Len(free_indices_)]] IN
     /\ gone.orderId_ = last.orderId
     /\ <<gone.side_, gone.price_>> \notin AllLevels
     /\ \E lv \in AllLevels : lv[1] = gone.side_

\* the sum of the remaining quantities of the orders in slots nodes, as
\* <<high, low>> with low below Half and high as large as the sum needs
RECURSIVE SumOfRemaining(_, _)
SumOfRemaining(pool, nodes) ==
  IF nodes = <<>> THEN <<0, 0>>
  ELSE LET rest == SumOfRemaining(pool, Tail(nodes))
           q == pool[Head(nodes)].remainingQuantity_
       IN <<rest[1] + (q \div Half) + ((rest[2] + (q % Half)) \div Half),
            (rest[2] + (q % Half)) % Half>>

\* infos lists the levels of map m in the order keys: one entry per key,
\* with the key as price
ListsLevels(infos, keys) ==
  /\ Len(infos) = Len(keys)
  /\ \A i \in 1..Len(infos) : infos[i].price_ = keys[i]

\* The value GetOrderInfos has returned lists, for each side, one entry per
\* stored level with the level's price, bids by descending and asks by
\* ascending price; and the call has changed nothing.
SnapshotListsLevels ==
  /\ BookUnchanged
  /\ trades_' = trades_
  /\ ListsLevels(ret'.infos.bids_, BidsKeys(bids_))
  /\ ListsLevels(ret'.infos.asks_, AsksKeys(asks_))
  /\ {ret'.infos.bids_[i].price_ : i \in 1..Len(ret'.infos.bids_)} = DOMAIN bids_
  /\ {ret'.infos.asks_[i].price_ : i \in 1..Len(ret'.infos.asks_)} = DOMAIN asks_
  /\ \A i, j \in 1..Len(ret'.infos.bids_) :
       i < j => ret'.infos.bids_[i].price_ > ret'.infos.bids_[j].price_
  /\ \A i, j \in 1..Len(ret'.infos.asks_) :
       i < j => ret'.infos.asks_[i].price_ < ret'.infos.asks_[j].price_

\* C18: GetOrderInfos returns, for each side, one entry per stored level with
\* the level's price and the sum of the remaining quantities of its orders,
\* bids by descending and asks by ascending price, and changes nothing.
SnapshotSumsLevels ==
  [][last'.op = "infos" =>
       /\ SnapshotListsLevels
       /\ \A i \in 1..Len(ret'.infos.bids_) :
            ret'.infos.bids_[i].quantity_
              = SumOfRemaining(pool_, NodesAt(<<Buy, ret'.infos.bids_[i].price_>>))
       /\ \A i \in 1..Len(ret'.infos.asks_) :
            ret'.infos.asks_[i].quantity_
              = SumOfRemaining(pool_, NodesAt(<<Sell, ret'.infos.asks_[i].price_>>))]_vars

\* C18 for the levels whose sum fits Quantity: the entry of a level holds
\* the sum of the remaining quantities when that sum is below 2^32.
SnapshotSumsLevelsThatFit ==
  [][last'.op = "infos" =>
       /\ SnapshotListsLevels
       /\ \A i \in 1..Len(ret'.infos.bids_) :
            LET sum == SumOfRemaining(pool_, NodesAt(<<Buy, ret'.infos.bids_[i].price_>>))
            IN sum[1] < Half => ret'.infos.bids_[i].quantity_ = sum
       /\ \A i \in 1..Len(ret'.infos.asks_) :
            LET sum == SumOfRemaining(pool_, NodesAt(<<Sell, ret'.infos.asks_[i].price_>>))
            IN sum[1] < Half => ret'.infos.asks_[i].quantity_ = sum]_vars

\* the slot of the order that is the leg with id in a trade of the call
\* being made: the slot acquired for the order the call inserts, else the
\* slot the id had before the call
SlotOfLeg(id) == IF id = last'.orderId THEN IncomingSlot ELSE orders_[id]

\* C19: partial fills keep their place.  After a call that traded, every
\* GoodTillCancel order that is a leg of one of its trades and has remaining
\* quantity left is in the book in its slot, with the id, side and price of
\* the leg, at the head of its level.  And when a call trades at a level
\* whose head had been filled in part before the call, the first trade at
\* that level is with that head.
PartialFillKeepsPlace ==
  [][last'.path = "matched" =>
       /\ \A k \in 1..Len(trades_') : \A side \in Side :
            LET id == Leg(trades_'[k], side).orderId_
                price == Leg(trades_'[k], side).price_
                slot == SlotOfLeg(id)
            IN (pool_'[slot].orderType_ = GoodTillCancel
                  /\ pool_'[slot].remainingQuantity_ > 0) =>
                 /\ id \in DOMAIN orders_'
                 /\ orders_'[id] = slot
                 /\ pool_'[slot].orderId_ = id
                 /\ pool_'[slot].side_ = side
                 /\ pool_'[slot].price_ = price
                 /\ \E lv \in AllLevels' :
                      lv = <<side, price>> /\ NodesAt(lv)'[1] = slot
       /\ \A lv \in AllLevels :
            LET head == pool_[NodesAt(lv)[1]]
            IN (filled[head.orderId_] > 0
                  /\ ~(last'.op = "modify" /\ last'.orderId = head.orderId_)) =>
                 \A k \in 1..Len(trades_') :
                   (Leg(trades_'[k], lv[1]).price_ = lv[2]
                      /\ \A j \in 1..(k - 1) : Leg(trades_'[j], lv[1]).price_ # lv[2])
                     => Leg(trades_'[k], lv[1]).orderId_ = head.orderId_]_vars

\* C19 witness: a bid that had been filled in part by an earlier call, with
\* another bid queued behind it at its price, was the first to trade in the
\* call just made, which filled it.
PartialFillKeepsPlaceWitness ==
  /\ last.path = "matched"
  /\ trades_ # <<>>
  /\ trades_[1].bidTrade_.orderId_ # last.orderId
  /\ \E s \in FreeSet :
       /\ pool_[s].orderId_ = trades_[1].bidTrade_.orderId_
       /\ pool_[s].side_ = Buy
       /\ IsFilled(pool_[s])
       /\ TradedIn(trades_, pool_[s].orderId_) < pool_[s].initialQuantity_
       /\ <<Buy, pool_[s].price_>> \in AllLevels
       /\ arrived[pool_[s].orderId_] < arrived[QueuedId(<<Buy, pool_[s].price_>>, 1)]

\* The remaining quantity of the order that is leg id just before trade k
\* of the call being made: what it had when matching began (the initial
\* quantity for the order the call inserts) less its legs in trades 1..k-1.
RemainingBefore(k, id) ==
  (IF id = last'.orderId
   THEN pool_'[SlotOfLeg(id)].initialQuantity_
   ELSE pool_[SlotOfLeg(id)].remainingQuantity_)
  - TradedIn(SubSeq(trades_', 1, k - 1), id)

\* C20: the trade record.  In every trade a call emits, the bid leg carries
\* the id and the price of a buy order and the ask leg the id and the price
\* of a sell order, each being the order inserted by the call or one that was
\* resting; and the quantity of both legs is the smaller of the remaining
\* quantities the two orders had just before the trade.  The orders are read
\* in their slots after the call, released or not.
TradeRecord ==
  [][last'.path = "matched" =>
       \A k \in 1..Len(trades_') :
         /\ \A side \in Side :
              LET leg == Leg(trades_'[k], side)
              IN /\ leg.orderId_ = last'.orderId \/ leg.orderId_ \in DOMAIN orders_
                 /\ pool_'[SlotOfLeg(leg.orderId_)].orderId_ = leg.orderId_
                 /\ pool_'[SlotOfLeg(leg.orderId_)].side_ = side
                 /\ pool_'[SlotOfLeg(leg.orderId_)].price_ = leg.price_
         /\ trades_'[k].bidTrade_.quantity_
              = Min(RemainingBefore(k, trades_'[k].bidTrade_.orderId_),
                    RemainingBefore(k, trades_'[k].askTrade_.orderId_))
         /\ trades_'[k].askTrade_.quantity_ = trades_'[k].bidTrade_.quantity_]_vars

\* C20 witness: one trade between a bid and an ask of different prices has
\* filled both, and both have been released.
TradeRecordWitness ==
  /\ last.path = "matched"
  /\ Len(trades_) = 1
  /\ trades_[1].bidTrade_.price_ > trades_[1].askTrade_.price_
  /\ trades_[1].bidTrade_.quantity_ > 0
  /\ trades_[1].bidTrade_.orderId_ \notin DOMAIN orders_
  /\ trades_[1].askTrade_.orderId_ \notin DOMAIN orders_
  /\ \E s, t \in FreeSet :
       /\ pool_[s].orderId_ = trades_[1].bidTrade_.orderId_
       /\ pool_[t].orderId_ = trades_[1].askTrade_.orderId_
       /\ IsFilled(pool_[s])
       /\ IsFilled(pool_[t])

\* C21: in every sequence of add, cancel and modify no call ends in the
\* std::logic_error that Order::Fill throws for a quantity greater than the
\* remaining quantity and that ObjectPool::release throws for a pointer that
\* is not in the pool: the caller never sees that exception.
NoLogicError == ret.status # "logic_error"

\* An add or modify has emitted a trade of a positive quantity that filled
\* one of its orders, whose slot was released, and left the other, which
\* had more than that quantity remaining, in the book.
NoLogicErrorWitness ==
  /\ last.path = "matched"
  /\ ret.status # "logic_error"
  /\ \E i \in 1..Len(trades_) :
       /\ trades_[i].bidTrade_.quantity_ > 0
       /\ \E gone \in OrderIds \ DOMAIN orders_, kept \in DOMAIN orders_ :
            /\ {gone, kept} = {trades_[i].bidTrade_.orderId_,
                               trades_[i].askTrade_.orderId_}
            /\ \E s \in FreeSet : pool_[s].orderId_ = gone /\ IsFilled(pool_[s])
            /\ pool_[orders_[kept]].remainingQuantity_ > 0
            /\ filled[kept] > 0

\* the list l over the links stored in pool is a well-formed FIFO
WellFormed(l, pool) ==
  /\ (l.head_ = NULL) = (l.tail_ = NULL)
  /\ (l.tail_ = NULL) = (l.size_ = 0)
  /\ l.size_ = Len(Nodes(l, pool))
  /\ \A i, j \in 1..Len(Nodes(l, pool)) :
       Nodes(l, pool)[i] = Nodes(l, pool)[j] => i = j
  /\ l.head_ # NULL =>
       /\ pool[l.head_].prev_ = NULL
       /\ pool[l.tail_].next_ = NULL
       /\ Nodes(l, pool)[Len(Nodes(l, pool))] = l.tail_
  /\ \A i \in 1..Len(Nodes(l, pool)) :
       /\ pool[Nodes(l, pool)[i]].prev_ =
            (IF i = 1 THEN NULL ELSE Nodes(l, pool)[i - 1])
       /\ pool[Nodes(l, pool)[i]].next_ =
            (IF i = Len(Nodes(l, pool)) THEN NULL ELSE Nodes(l, pool)[i + 1])

\* the order in slot s is linked to no other
Detached(pool, s) == pool[s].prev_ = NULL /\ pool[s].next_ = NULL

\* the list and pool r that an operation on a list gave are well formed
\* and the list holds exactly nodes, in that order
Gives(r, nodes) == WellFormed(r.l, r.pool) /\ Nodes(r.l, r.pool) = nodes

\* C22: per-level FIFO well-formedness.  Every level stored is a well-formed
\* list: head_ is null iff tail_ is null iff size_ is 0, size_ is the number
\* of nodes reached from head_ by next_, head's prev_ and tail's next_ are
\* null and every node's links agree with its neighbours.  Every slot that
\* is not in use (never used, or removed from its list) has both links
\* null.  Each of push_back, remove and pop_front applied to a list of the
\* book, and push_back to an empty list, gives a well-formed list again,
\* with the node appended at the tail, the removed node (the head for
\* pop_front) left out and detached, and the other nodes in their order;
\* pop_front on an empty list changes neither the list nor an order.
FifoWellFormed ==
  /\ \A lv \in AllLevels : WellFormed(ListAt(lv), pool_)
  /\ \A s \in FreeSet : Detached(pool_, s)
  /\ \A s \in FreeSet :
       Gives(push_back(EmptyList, pool_, s), <<s>>)
  /\ \A lv \in AllLevels :
       /\ \A s \in FreeSet :
            Gives(push_back(ListAt(lv), pool_, s), Append(NodesAt(lv), s))
       /\ \A i \in 1..Len(NodesAt(lv)) :
            /\ Gives(remove(ListAt(lv), pool_, NodesAt(lv)[i]),
                     Without(NodesAt(lv), NodesAt(lv)[i]))
            /\ Detached(remove(ListAt(lv), pool_, NodesAt(lv)[i]).pool,
                        NodesAt(lv)[i])
       /\ Gives(pop_front(ListAt(lv), pool_), Tail(NodesAt(lv)))
       /\ Detached(pop_front(ListAt(lv), pool_).pool, front(ListAt(lv)))
  /\ pop_front(EmptyList, pool_) = [l |-> EmptyList, pool |-> pool_]

\* An add has matched the head of a level of two bids, which pop_front
\* took off the list and release returned to the pool; the bid that was
\* pushed behind it remains, as the head and the tail of the level.
FifoWellFormedWitness ==
  /\ last.path = "matched"
  /\ Len(trades_) = 1
  /\ trades_[1].bidTrade_.orderId_ \notin DOMAIN orders_
  /\ trades_[1].askTrade_.orderId_ = last.orderId
  /\ \E s \in FreeSet :
       /\ pool_[s].orderId_ = trades_[1].bidTrade_.orderId_
       /\ pool_[s].side_ = Buy
       /\ Detached(pool_, s)
  /\ <<Buy, trades_[1].bidTrade_.price_>> \in AllLevels
  /\ Len(NodesAt(<<Buy, trades_[1].bidTrade_.price_>>)) = 1
  /\ arrived[pool_[front(ListAt(<<Buy, trades_[1].bidTrade_.price_>>))].orderId_]
       < calls
  /\ WellFormed(ListAt(<<Buy, trades_[1].bidTrade_.price_>>), pool_)

\* the other side
Opposite(side) == IF side = Buy THEN Sell ELSE Buy

\* the number of orders of book b resting on side
RestingOn(b, side) ==
  Cardinality({id \in DOMAIN b.orders_ : b.pool_[b.orders_[id]].side_ = side})

\* The remaining quantity that order id has just before trade k of the
\* trades T emitted by an add of orderId with quantity to book b: what it
\* had before the add (quantity for the incoming order) less its earlier
\* trades of T.
RemainingAt(b, T, orderId, quantity, k, id) ==
  (IF id = orderId THEN quantity ELSE b.pool_[b.orders_[id]].remainingQuantity_)
  - TradedIn(SubSeq(T, 1, k - 1), id)

\* Trade k of T, emitted by the add of orderId that ended as o on book b,
\* has removed the order of its leg on side: that order had exactly the
\* quantity of the trade remaining, is in no later trade and is not in the
\* book after the add.
RemovedBy(b, o, T, orderId, quantity, k, side) ==
  /\ Leg(T[k], side).orderId_ \in (DOMAIN b.orders_) \cup {orderId}
  /\ Leg(T[k], side).orderId_ \notin DOMAIN o.book.orders_
  /\ RemainingAt(b, T, orderId, quantity, k, Leg(T[k], side).orderId_)
       = Leg(T[k], side).quantity_
  /\ \A j \in (k + 1)..Len(T) : Leg(T[j], side).orderId_ # Leg(T[k], side).orderId_

\* the add that ended as o on book b emitted at most as many trades as
\* orders were resting on the other side, and each of them removed an order
AddIsBounded(b, o, orderId, side, quantity) ==
  /\ o.book.thrown \in {NoThrow, "runtime_error"}
  /\ Len(Emitted(o)) <= RestingOn(b, Opposite(side))
  /\ \A k \in 1..Len(Emitted(o)) :
       \E s \in Side : RemovedBy(b, o, Emitted(o), orderId, quantity, k, s)

\* C23: the matching loop terminates on every reachable book.  For every
\* book reached and every add to it, AddOrder returns, having emitted at
\* most as many trades as orders were resting on the side opposite to the
\* incoming order; every trade has removed at least one of its two orders
\* from the book, one whose remaining quantity was the quantity traded (the
\* minimum of the two).
MatchingTerminates ==
  \A orderType \in OrderType, orderId \in OrderIds, side \in Side,
     price \in Prices, quantity \in Quantities :
    \A o \in {AddOrder(Book, orderType, orderId, side, price, quantity)} :
      AddIsBounded(Book, o, orderId, side, quantity)

\* An add of a bid has returned after two trades, one with each of the two
\* asks that were resting, and has removed both.
MatchingTerminatesWitness ==
  /\ last.op = "add"
  /\ last.path = "matched"
  /\ Len(trades_) = 2
  /\ DOMAIN asks_ = {}
  /\ \A k \in 1..2 :
       /\ trades_[k].bidTrade_.orderId_ = last.orderId
       /\ trades_[k].askTrade_.orderId_ \notin DOMAIN orders_
       /\ trades_[k].askTrade_.quantity_ > 0
  /\ trades_[1].askTrade_.orderId_ # trades_[2].askTrade_.orderId_

\* In the list of trades T that a call submitting orderId on side with
\* quantity to the book b yields, the submitted order is the leg of its side
\* in every trade; the other leg is an order of the other side that was
\* resting in b, another one in every trade; and the trades together carry
\* no more than quantity.
IncomingInAll(b, T, orderId, side, quantity) ==
  /\ \A k \in 1..Len(T) :
       /\ Leg(T[k], side).orderId_ = orderId
       /\ Leg(T[k], Opposite(side)).orderId_ \in (DOMAIN b.orders_) \ {orderId}
       /\ b.pool_[b.orders_[Leg(T[k], Opposite(side)).orderId_]].side_
            = Opposite(side)
       /\ Leg(T[k], Opposite(side)).quantity_
            <= b.pool_[b.orders_[Leg(T[k], Opposite(side)).orderId_]].remainingQuantity_
  /\ \A j, k \in 1..Len(T) :
       Leg(T[j], Opposite(side)).orderId_ = Leg(T[k], Opposite(side)).orderId_
         => j = k
  /\ TradedIn(T, orderId) <= quantity

\* the same for the call that ended as o: for the list its return
\* statement yields, for the trades its MatchOrders put into trades_ and
\* for each list the caller can get back
IncomingInAllOf(b, o, got, orderId, side, quantity) ==
  /\ IncomingInAll(b, o.trades, orderId, side, quantity)
  /\ IncomingInAll(b, Emitted(o), orderId, side, quantity)
  /\ \A r \in got : IncomingInAll(b, r.trades, orderId, side, quantity)

\* C24: the incoming order is a party to every trade it causes.  For every
\* book reached, every add and every modify to it yields a list of trades
\* in each of which the submitted id is the bid leg when its side is Buy
\* and the ask leg when its side is Sell, and the other leg is an order
\* that was resting on the other side before the call: no trade is between
\* two orders that were resting, and none is left from an earlier call
\* (every resting order is in at most one trade of the list, for at most
\* its remaining quantity, and the list carries at most the submitted
\* quantity).
IncomingIsParty ==
  /\ \A orderType \in OrderType, orderId \in OrderIds, side \in Side,
        price \in Prices, quantity \in Quantities :
       \A o \in {AddOrder(Book, orderType, orderId, side, price, quantity)} :
         IncomingInAllOf(Book, o, {Returned(o)}, orderId, side, quantity)
  /\ \A orderId \in OrderIds, side \in Side, price \in Prices,
        quantity \in Quantities :
       \A o \in {MatchOrder(Book, orderId, side, price, quantity)} :
         IncomingInAllOf(Book, o, Copied(o), orderId, side, quantity)

\* An add has traded with an order that had already traded in an earlier
\* call, and the list holds the one trade of this add only: the resting
\* order was filled by it for less than its initial quantity.
IncomingIsPartyWitness ==
  /\ last.op = "add"
  /\ last.path = "matched"
  /\ Len(trades_) = 1
  /\ \E side \in Side :
       /\ Leg(trades_[1], side).orderId_ = last.orderId
       /\ Leg(trades_[1], Opposite(side)).orderId_ \notin DOMAIN orders_
       /\ \E s \in FreeSet :
            /\ pool_[s].orderId_ = Leg(trades_[1], Opposite(side)).orderId_
            /\ pool_[s].side_ = Opposite(side)
            /\ IsFilled(pool_[s])
            /\ Leg(trades_[1], Opposite(side)).quantity_ < pool_[s].initialQuantity_
            /\ Leg(trades_[1], Opposite(side)).quantity_ > 0

\* The leg of trade t on side is an order of that side: the order the call
\* being made inserts, or one that was queued on that side before the call,
\* at the price of the leg; its slot holds the leg's id and side.
LegIsOfSide(t, side) ==
  /\ Leg(t, side).orderId_ = last'.orderId \/ Leg(t, side).orderId_ \in DOMAIN orders_
  /\ pool_'[SlotOfLeg(Leg(t, side).orderId_)].orderId_ = Leg(t, side).orderId_
  /\ pool_'[SlotOfLeg(Leg(t, side).orderId_)].side_ = side
  /\ Leg(t, side).orderId_ # last'.orderId =>
       /\ <<side, Leg(t, side).price_>> \in AllLevels
       /\ \E i \in 1..Len(NodesAt(<<side, Leg(t, side).price_>>)) :
            NodesAt(<<side, Leg(t, side).price_>>)[i] = orders_[Leg(t, side).orderId_]

\* C25: in every trade a call emits the price of the bid leg is greater than
\* or equal to the price of the ask leg, and the legs are two orders, the
\* bid leg one of the bid side and the ask leg one of the ask side; nothing
\* else relates the two ids.
LegsCross ==
  [][last'.path = "matched" =>
       \A k \in 1..Len(trades_') :
         /\ trades_'[k].bidTrade_.price_ >= trades_'[k].askTrade_.price_
         /\ trades_'[k].bidTrade_.orderId_ # trades_'[k].askTrade_.orderId_
         /\ LegIsOfSide(trades_'[k], Buy)
         /\ LegIsOfSide(trades_'[k], Sell)
         /\ SlotOfLeg(trades_'[k].bidTrade_.orderId_)
              # SlotOfLeg(trades_'[k].askTrade_.orderId_)]_vars

\* An incoming bid has traded with an ask of a lower price and then with an
\* ask of its own price.
LegsCrossWitness ==
  /\ last.path = "matched"
  /\ Len(trades_) = 2
  /\ trades_[1].bidTrade_.orderId_ = last.orderId
  /\ trades_[2].bidTrade_.orderId_ = last.orderId
  /\ trades_[1].bidTrade_.price_ > trades_[1].askTrade_.price_
  /\ trades_[2].bidTrade_.price_ = trades_[2].askTrade_.price_
  /\ trades_[1].askTrade_.orderId_ # trades_[2].askTrade_.orderId_

\* an order with this id is queued at a level of the book
Queued(id) ==
  \E lv \in AllLevels : \E i \in 1..Len(NodesAt(lv)) :
    pool_[NodesAt(lv)[i]].orderId_ = id

\* the list of book b at price on side, empty when the level is not stored
LevelOf(b, side, price) ==
  IF side = Buy THEN At(b.bids_, price) ELSE At(b.asks_, price)

\* The order that an add which ended as o on book b has put into slot ptr
\* is a new order: it has the fields submitted, its initial quantity is the
\* quantity submitted and its remaining quantity is that less its trades in
\* the call; while it is in the book it is the tail of its level; and when
\* the call made no trade and it stays, remaining = initial = quantity and
\* its level holds the orders it held before, followed by it.
IsNewOrder(b, o, ptr, orderType, orderId, side, price, quantity) ==
  /\ o.book.pool_[ptr].orderType_ = orderType
  /\ o.book.pool_[ptr].orderId_ = orderId
  /\ o.book.pool_[ptr].side_ = side
  /\ o.book.pool_[ptr].price_ = price
  /\ o.book.pool_[ptr].initialQuantity_ = quantity
  /\ o.book.pool_[ptr].remainingQuantity_ = quantity - TradedIn(Emitted(o), orderId)
  /\ orderId \in DOMAIN o.book.orders_ =>
       /\ o.book.orders_[orderId] = ptr
       /\ LevelOf(o.book, side, price).tail_ = ptr
       /\ o.book.pool_[ptr].next_ = NULL
  /\ orderId \notin DOMAIN o.book.orders_ =>
       \E i \in 1..Len(o.book.free_indices_) : o.book.free_indices_[i] = ptr
  /\ (Emitted(o) = <<>> /\ orderId \in DOMAIN o.book.orders_) =>
       /\ o.book.pool_[ptr].remainingQuantity_ = quantity
       /\ Nodes(LevelOf(o.book, side, price), o.book.pool_)
            = Append(Nodes(LevelOf(b, side, price), b.pool_), ptr)

\* C26: duplicate detection covers only resting orders.  An add is rejected
\* as a duplicate exactly when its id is in the ID index, which is exactly
\* when an order with that id is queued at a level.  An id that was in the
\* book earlier and has left it is accepted by add like any other: unless
\* the order is a FillAndKill order that cannot match (or the pool has no
\* free slot), it is inserted as a new order with initial = remaining = the
\* new quantity at the tail of its level and matched.
ReaddIsAccepted ==
  \A orderType \in OrderType, orderId \in OrderIds, side \in Side,
     price \in Prices, quantity \in Quantities :
    \A o \in {AddOrder(Book, orderType, orderId, side, price, quantity)} :
      /\ (o.path = "duplicate") = (orderId \in DOMAIN orders_)
      /\ (orderId \in DOMAIN orders_) = Queued(orderId)
      /\ (arrived[orderId] > 0 /\ ~Queued(orderId)) =>
           /\ o.path \in {"matched", "dropped", "exhausted"}
           /\ (o.path = "dropped") =
                (orderType = FillAndKill /\ ~CanMatch(Book, side, price))
           /\ (o.path = "exhausted") =
                (free_indices_ = <<>>
                 /\ ~(orderType = FillAndKill /\ ~CanMatch(Book, side, price)))
           /\ o.path = "matched" =>
                IsNewOrder(Book, o, free_indices_[Len(free_indices_)],
                           orderType, orderId, side, price, quantity)

\* An add has brought back the id of an order that was filled and left the
\* book: the filled order is still to be seen in its released slot, and the
\* new order with the same id rests in another slot with remaining =
\* initial, as the tail of its level.
ReaddIsAcceptedWitness ==
  /\ last.op = "add"
  /\ last.path = "matched"
  /\ last.orderId \in DOMAIN orders_
  /\ pool_[orders_[last.orderId]].remainingQuantity_
       = pool_[orders_[last.orderId]].initialQuantity_
  /\ pool_[orders_[last.orderId]].initialQuantity_ > 0
  /\ pool_[orders_[last.orderId]].next_ = NULL
  /\ \E s \in FreeSet :
       /\ pool_[s].orderId_ = last.orderId
       /\ IsFilled(pool_[s])
       /\ pool_[s].initialQuantity_ > 0
       /\ pool_[s].initialQuantity_ # pool_[orders_[last.orderId]].initialQuantity_

====
